---------------------------- MODULE Spec2Model ----------------------------
(***************************************************************************)
(* The conversation session controller of the chat client (App.jsx): the   *)
(* React state of the App component, its event handlers, and the HTTP      *)
(* requests they leave in flight.  A text is a sequence of chunks (for the *)
(* input buffer a chunk is one character), and string concatenation is \o. *)
(* null is the empty text: every text the code stores in `error` is        *)
(* non-empty, and an absent or empty `message` of an error body is falsy   *)
(* in the code's test either way.                                          *)
(*                                                                         *)
(* JavaScript runs a handler, or the continuation of an await, to its end  *)
(* before the next event: each is one action, and the state updates of one *)
(* handler are applied together.  A handler reads the state of the latest  *)
(* render.  The handlers are taken as the controller's operations: they    *)
(* may be invoked in any state, whatever widgets the view has disabled.    *)
(***************************************************************************)
EXTENDS Integers, Sequences, FiniteSets, Bags, TLC

VARIABLES
    messages,    \* useState([])                 the conversation
    input,       \* useState('')                 the input buffer
    isLoading,   \* useState(false)              "pending"
    sessionId,   \* useState(`session_${Date.now()}`)
    settings,    \* useState({maxLength, temperature, topP})
    error,       \* useState(null)               "lastError"
    now,         \* the value Date.now() returns
    health,      \* the GET /api/health request: "inflight" or "done"
    chatReqs,    \* the POST /api/chat requests in flight, in dispatch order
    deleteReqs,  \* the DELETE /api/chat/:id requests in flight: a bag of the ids
    used,        \* history: every sessionId that has been the state's sessionId
    nSettings,   \* history: how many settings updates have been made
    last         \* history: the send, clear, health check or resolution that ran last

vars == <<messages, input, isLoading, sessionId, settings, error, now,
          health, chatReqs, deleteReqs, used, nSettings, last>>

-----------------------------------------------------------------------------
(* Bounds of the model *)

MaxMessages == 3         \* a send is taken while its reply still fits
MaxClock == 1            \* Date.now() ranges over 0..MaxClock
MaxDeletes == 1          \* DELETE requests in flight at once
MaxSettingsChanges == 1  \* settings updates in one run

(* Program constants *)

DefaultMaxLength == 512
DefaultTemperature == 7      \* 0.7, in tenths
DefaultTopP == 90            \* 0.9, in hundredths
TooManyRequests == 429

-----------------------------------------------------------------------------
(* Input domains *)

Inputs == {<<>>, <<" ", " ">>, <<" ", "a", " ", "b", " ">>}

Responses == {<<"Hi there">>}

ModelNames == {"legal-v1"}

MaxLengths == {DefaultMaxLength, 1024}

Temperatures == {DefaultTemperature, 12}

TopPs == {DefaultTopP, 50}

ErrCodes == {"ECONNABORTED", "ERR_NETWORK", "ERR_BAD_RESPONSE"}

ServerTexts == {<<>>, <<"Model is overloaded">>}

\* err.response is absent (<<>>) or one response <<[status, message]>>
ErrResponses ==
    {<<>>} \cup {<<[status |-> s, message |-> m]>> : s \in {TooManyRequests, 500}, m \in ServerTexts}

Errs == [code : ErrCodes, response : ErrResponses]

\* the failures of the main specification: a timeout and a server message
CoreErrs ==
    {[code |-> "ECONNABORTED", response |-> <<>>],
     [code |-> "ERR_BAD_RESPONSE",
      response |-> <<[status |-> 500, message |-> <<"Model is overloaded">>]>>]}

null == <<>>

-----------------------------------------------------------------------------
(* Pure functions *)

RECURSIVE trimStart(_)
trimStart(s) ==
    IF s # <<>> /\ Head(s) = " " THEN trimStart(Tail(s)) ELSE s

RECURSIVE trimEnd(_)
trimEnd(s) ==
    IF s # <<>> /\ s[Len(s)] = " " THEN trimEnd(SubSeq(s, 1, Len(s) - 1)) ELSE s

\* only the leading white space removed
trim_StartOnly(s) == trimStart(s)

\* String.prototype.trim
trim(s) == trimEnd(trimStart(s))

SessionToken(t) == <<"session_", t>>

UserMessage(text) == [role |-> "user", content |-> text]

AssistantMessage(response, modelName) ==
    [role |-> "assistant", content |-> response, modelName |-> modelName]

ErrorMessage(text) == [role |-> "error", content |-> text]

\* the banner showing the send failure's text for an unreachable server
HealthCheckFailedText_SendFailureText ==
    <<"Failed to get response. ",
      "Cannot connect to server. Please check if the backend is running.">>

\* setError('Unable to connect to server. ...') of checkHealth
HealthCheckFailedText ==
    <<"Unable to connect to server. Please check if the backend is running.">>

ErrorPrefix == <<"Failed to get response. ">>

\* the missing response tested before the timeout code
errorMessage_ResponseFirst(err) ==
    ErrorPrefix \o
    ( IF err.response = <<>>
        THEN <<"Cannot connect to server. Please check if the backend is running.">>
      ELSE IF err.code = "ECONNABORTED"
        THEN <<"Request timed out. The model might be taking too long to respond.">>
      ELSE IF err.response[1].status = TooManyRequests
        THEN <<"Too many requests. Please wait a moment and try again.">>
      ELSE IF err.response[1].message # <<>>
        THEN err.response[1].message
      ELSE <<"Please try again.">> )

\* the server's message tested before the status 429
errorMessage_MessageFirst(err) ==
    ErrorPrefix \o
    ( IF err.code = "ECONNABORTED"
        THEN <<"Request timed out. The model might be taking too long to respond.">>
      ELSE IF err.response # <<>> /\ err.response[1].message # <<>>
        THEN err.response[1].message
      ELSE IF err.response # <<>> /\ err.response[1].status = TooManyRequests
        THEN <<"Too many requests. Please wait a moment and try again.">>
      ELSE IF err.response = <<>>
        THEN <<"Cannot connect to server. Please check if the backend is running.">>
      ELSE <<"Please try again.">> )

\* the catch block's if chain
errorMessage(err) ==
    ErrorPrefix \o
    ( IF err.code = "ECONNABORTED"
        THEN <<"Request timed out. The model might be taking too long to respond.">>
      ELSE IF err.response # <<>> /\ err.response[1].status = TooManyRequests
        THEN <<"Too many requests. Please wait a moment and try again.">>
      ELSE IF err.response # <<>> /\ err.response[1].message # <<>>
        THEN err.response[1].message
      ELSE IF err.response = <<>>
        THEN <<"Cannot connect to server. Please check if the backend is running.">>
      ELSE <<"Please try again.">> )

\* the request body built with the default settings instead of the current ones
ChatPayload_DefaultOptions(message, sid, options) ==
    [message |-> message,
     sessionId |-> sid,
     options |-> [maxLength |-> DefaultMaxLength,
                  temperature |-> DefaultTemperature,
                  topP |-> DefaultTopP]]

\* { message: userMessage, sessionId: sessionId, options: settings }
ChatPayload(message, sid, options) ==
    [message |-> message, sessionId |-> sid, options |-> options]

\* the settled request left in flight
Remove_Keep(seq, i) == seq

\* the request whose await has settled is no longer in flight
Remove(seq, i) == SubSeq(seq, 1, i - 1) \o SubSeq(seq, i + 1, Len(seq))

-----------------------------------------------------------------------------
(* Initial state: the first render of App, with the mount effect run *)

Init ==
    /\ messages = <<>>
    /\ input = <<>>
    /\ isLoading = FALSE
    /\ now = 0
    /\ sessionId = SessionToken(0)
    /\ settings = [maxLength |-> DefaultMaxLength,
                   temperature |-> DefaultTemperature,
                   topP |-> DefaultTopP]
    /\ error = null
    /\ health = "inflight"
    /\ chatReqs = <<>>
    /\ deleteReqs = EmptyBag
    /\ used = {SessionToken(0)}
    /\ nSettings = 0
    /\ last = [op |-> "mount"]

-----------------------------------------------------------------------------
(* Actions *)

\* Date.now() advances between two events
Tick ==
    /\ now < MaxClock
    /\ now' = now + 1
    /\ UNCHANGED <<messages, input, isLoading, sessionId, settings, error,
                   health, chatReqs, deleteReqs, used, nSettings, last>>

\* onChange of the input field, the suggestion buttons, the input's X button
setInput(value) ==
    /\ input' = value
    /\ UNCHANGED <<messages, isLoading, sessionId, settings, error, now,
                   health, chatReqs, deleteReqs, used, nSettings, last>>

\* the guard testing the input without trimming it
SendRejected_Untrimmed == input = <<>> \/ isLoading

\* the guard without its isLoading test
SendRejected_IgnoresPending == trim(input) = <<>>

\* if (!input.trim() || isLoading) return;
SendRejected == trim(input) = <<>> \/ isLoading

\* the conversation replaced by the user message instead of extended by it
WithUserMessage_Replace(prev, userMessage) == <<UserMessage(userMessage)>>

\* setMessages(prev => [...prev, { role: 'user', content: userMessage }])
WithUserMessage(prev, userMessage) == Append(prev, UserMessage(userMessage))

\* axios.post(`${API_URL}/api/chat`, {message, sessionId, options}, {timeout})
\* `before` and `cleared` are history: the conversation the send found, and
\* whether a clear has reset the conversation since
Dispatched(userMessage) ==
    [payload |-> ChatPayload(userMessage, sessionId, settings),
     before |-> messages,
     cleared |-> FALSE]

sendMessage ==
    IF SendRejected
      THEN /\ last' = [op |-> "sendRejected"]
           /\ UNCHANGED <<messages, input, isLoading, sessionId, settings, error,
                          now, health, chatReqs, deleteReqs, used, nSettings>>
      ELSE LET userMessage == trim(input) IN
           /\ Len(messages) + 2 <= MaxMessages
           /\ input' = <<>>
           /\ error' = null
           /\ messages' = WithUserMessage(messages, userMessage)
           /\ isLoading' = TRUE
           /\ chatReqs' = Append(chatReqs, Dispatched(userMessage))
           /\ last' = [op |-> "send", text |-> userMessage]
           /\ UNCHANGED <<sessionId, settings, now, health, deleteReqs, used, nSettings>>

\* finally { setIsLoading(false) } left out
isLoadingAfterFinally_Skipped == isLoading

\* finally { setIsLoading(false) }
isLoadingAfterFinally == FALSE

\* the reply put before the conversation instead of after it
WithAssistantMessage_Prepend(prev, data) ==
    <<AssistantMessage(data.response, data.modelName)>> \o prev

\* setMessages(prev => [...prev, { role: 'assistant', content, modelName }])
WithAssistantMessage(prev, data) ==
    Append(prev, AssistantMessage(data.response, data.modelName))

\* the await of axios.post returns: the try block's tail, then finally
chatSuccess(i, data) ==
    /\ i \in 1..Len(chatReqs)
    /\ messages' = WithAssistantMessage(messages, data)
    /\ isLoading' = isLoadingAfterFinally
    /\ chatReqs' = Remove(chatReqs, i)
    /\ last' = [op |-> "chatSuccess", req |-> chatReqs[i], data |-> data]
    /\ UNCHANGED <<input, sessionId, settings, error, now, health, deleteReqs, used, nSettings>>

\* the error entry put in place of the last message
WithErrorMessage_Replace(prev, text) ==
    IF prev = <<>> THEN <<ErrorMessage(text)>>
    ELSE [prev EXCEPT ![Len(prev)] = ErrorMessage(text)]

\* setMessages(prev => [...prev, { role: 'error', content: errorMessage }])
WithErrorMessage(prev, text) == Append(prev, ErrorMessage(text))

\* setIsLoading(false) at the end of the try block instead of in finally
chatFailure_NoFinally(i, err) ==
    /\ i \in 1..Len(chatReqs)
    /\ error' = errorMessage(err)
    /\ messages' = WithErrorMessage(messages, errorMessage(err))
    /\ chatReqs' = Remove(chatReqs, i)
    /\ last' = [op |-> "chatFailure", req |-> chatReqs[i], err |-> err]
    /\ UNCHANGED <<input, isLoading, sessionId, settings, now, health,
                   deleteReqs, used, nSettings>>

\* the await of axios.post throws: the catch block, then finally
chatFailure(i, err) ==
    /\ i \in 1..Len(chatReqs)
    /\ error' = errorMessage(err)
    /\ messages' = WithErrorMessage(messages, errorMessage(err))
    /\ isLoading' = isLoadingAfterFinally
    /\ chatReqs' = Remove(chatReqs, i)
    /\ last' = [op |-> "chatFailure", req |-> chatReqs[i], err |-> err]
    /\ UNCHANGED <<input, sessionId, settings, now, health, deleteReqs, used, nSettings>>

\* checkHealth: the await of axios.get returns
healthOk ==
    /\ health = "inflight"
    /\ health' = "done"
    /\ error' = null
    /\ last' = [op |-> "healthOk"]
    /\ UNCHANGED <<messages, input, isLoading, sessionId, settings, now,
                   chatReqs, deleteReqs, used, nSettings>>

\* checkHealth: the await of axios.get throws
healthFailed ==
    /\ health = "inflight"
    /\ health' = "done"
    /\ error' = HealthCheckFailedText
    /\ last' = [op |-> "healthFailed"]
    /\ UNCHANGED <<messages, input, isLoading, sessionId, settings, now,
                   chatReqs, deleteReqs, used, nSettings>>

\* the local reset made at the invocation, before the DELETE is awaited
clearChat_ResetsAtOnce(confirmed) ==
    IF ~confirmed
      THEN /\ last' = [op |-> "clearCancelled"]
           /\ UNCHANGED <<messages, input, isLoading, sessionId, settings, error,
                          now, health, chatReqs, deleteReqs, used, nSettings>>
      ELSE /\ BagCardinality(deleteReqs) < MaxDeletes
           /\ deleteReqs' = deleteReqs (+) SetToBag({sessionId})
           /\ messages' = <<>>
           /\ sessionId' = SessionToken(now)
           /\ error' = null
           /\ used' = used \cup {sessionId'}
           /\ last' = [op |-> "clearConfirmed"]
           /\ UNCHANGED <<input, isLoading, settings, now, health, chatReqs, nSettings>>

\* clearChat up to its await: confirm(), then axios.delete is dispatched
clearChat(confirmed) ==
    IF ~confirmed
      THEN /\ last' = [op |-> "clearCancelled"]
           /\ UNCHANGED <<messages, input, isLoading, sessionId, settings, error,
                          now, health, chatReqs, deleteReqs, used, nSettings>>
      ELSE /\ BagCardinality(deleteReqs) < MaxDeletes
           /\ deleteReqs' = deleteReqs (+) SetToBag({sessionId})
           /\ last' = [op |-> "clearConfirmed"]
           /\ UNCHANGED <<messages, input, isLoading, sessionId, settings, error,
                          now, health, chatReqs, used, nSettings>>

\* setSessionId(`session_${Date.now()}`)
NewSessionId == SessionToken(now)

\* the clear dropping the chat requests in flight
MarkCleared_Abort(reqs) == <<>>

\* the requests in flight after setMessages([]): none is cancelled
MarkCleared(reqs) == [k \in 1..Len(reqs) |-> [reqs[k] EXCEPT !.cleared = TRUE]]

\* the reset without setError(null)
deleteOk_KeepsError(sid) ==
    /\ BagIn(sid, deleteReqs)
    /\ messages' = <<>>
    /\ sessionId' = NewSessionId
    /\ deleteReqs' = deleteReqs (-) SetToBag({sid})
    /\ used' = used \cup {sessionId'}
    /\ chatReqs' = MarkCleared(chatReqs)
    /\ last' = [op |-> "deleteOk"]
    /\ UNCHANGED <<input, isLoading, settings, error, now, health, nSettings>>

\* the new sessionId installed without setMessages([]) and setError(null)
deleteOk_SessionIdOnly(sid) ==
    /\ BagIn(sid, deleteReqs)
    /\ sessionId' = NewSessionId
    /\ deleteReqs' = deleteReqs (-) SetToBag({sid})
    /\ used' = used \cup {sessionId'}
    /\ last' = [op |-> "deleteOk"]
    /\ UNCHANGED <<messages, input, isLoading, settings, error, now, health,
                   chatReqs, nSettings>>

\* clearChat: the await of axios.delete returns
deleteOk(sid) ==
    /\ BagIn(sid, deleteReqs)
    /\ messages' = <<>>
    /\ sessionId' = NewSessionId
    /\ error' = null
    /\ deleteReqs' = deleteReqs (-) SetToBag({sid})
    /\ used' = used \cup {sessionId'}
    /\ UNCHANGED nSettings
    /\ chatReqs' = MarkCleared(chatReqs)
    /\ last' = [op |-> "deleteOk"]
    /\ UNCHANGED <<input, isLoading, settings, now, health>>

\* clearChat: the await of axios.delete throws; the catch block only logs
deleteFailed(sid) ==
    /\ BagIn(sid, deleteReqs)
    /\ deleteReqs' = deleteReqs (-) SetToBag({sid})
    /\ last' = [op |-> "deleteFailed"]
    /\ UNCHANGED <<messages, input, isLoading, sessionId, settings, error, now,
                   health, chatReqs, used, nSettings>>

\* onChange of the three range inputs: setSettings({...settings, field: value});
\* a range input fires onChange when its value has changed
setMaxLength(value) ==
    /\ value # settings.maxLength
    /\ nSettings < MaxSettingsChanges
    /\ nSettings' = nSettings + 1
    /\ settings' = [settings EXCEPT !.maxLength = value]
    /\ UNCHANGED <<messages, input, isLoading, sessionId, error, now,
                   health, chatReqs, deleteReqs, used, last>>

setTemperature(value) ==
    /\ value # settings.temperature
    /\ nSettings < MaxSettingsChanges
    /\ nSettings' = nSettings + 1
    /\ settings' = [settings EXCEPT !.temperature = value]
    /\ UNCHANGED <<messages, input, isLoading, sessionId, error, now,
                   health, chatReqs, deleteReqs, used, last>>

\* the topP slider wired to the temperature field
setTopP_WritesTemperature(value) ==
    /\ value # settings.topP
    /\ nSettings < MaxSettingsChanges
    /\ nSettings' = nSettings + 1
    /\ settings' = [settings EXCEPT !.temperature = value]
    /\ UNCHANGED <<messages, input, isLoading, sessionId, error, now,
                   health, chatReqs, deleteReqs, used, last>>

setTopP(value) ==
    /\ value # settings.topP
    /\ nSettings < MaxSettingsChanges
    /\ nSettings' = nSettings + 1
    /\ settings' = [settings EXCEPT !.topP = value]
    /\ UNCHANGED <<messages, input, isLoading, sessionId, error, now,
                   health, chatReqs, deleteReqs, used, last>>

\* the X button of the error banner: setError(null)
dismissError ==
    /\ error # null
    /\ error' = null
    /\ UNCHANGED <<messages, input, isLoading, sessionId, settings, now,
                   health, chatReqs, deleteReqs, used, nSettings, last>>

Next ==
    \/ Tick
    \/ \E value \in Inputs : setInput(value)
    \/ sendMessage
    \/ \E i \in 1..Len(chatReqs) :
         \E response \in Responses, modelName \in ModelNames :
           chatSuccess(i, [response |-> response, modelName |-> modelName])
    \/ \E i \in 1..Len(chatReqs) : \E err \in CoreErrs : chatFailure(i, err)
    \/ healthOk
    \/ healthFailed
    \/ \E confirmed \in BOOLEAN : clearChat(confirmed)
    \/ \E sid \in BagToSet(deleteReqs) : deleteOk(sid)
    \/ \E sid \in BagToSet(deleteReqs) : deleteFailed(sid)
    \/ \E value \in MaxLengths : setMaxLength(value)
    \/ \E value \in Temperatures : setTemperature(value)
    \/ \E value \in TopPs : setTopP(value)
    \/ dismissError

Spec == Init /\ [][Next]_vars

\* the promise of axios.post settles: with a response, with an error, or, by
\* { timeout: 60000 }, with ECONNABORTED once 60 seconds have passed
chatSettles ==
    \E i \in 1..Len(chatReqs) :
      \/ \E response \in Responses, modelName \in ModelNames :
           chatSuccess(i, [response |-> response, modelName |-> modelName])
      \/ \E err \in CoreErrs : chatFailure(i, err)

\* The handlers and resolutions at one value of Date.now(), with every chat
\* request in flight settling in the end
NextLive ==
    \/ \E value \in Inputs : setInput(value)
    \/ sendMessage
    \/ \E i \in 1..Len(chatReqs) :
         \E response \in Responses, modelName \in ModelNames :
           chatSuccess(i, [response |-> response, modelName |-> modelName])
    \/ \E i \in 1..Len(chatReqs) : \E err \in CoreErrs : chatFailure(i, err)
    \/ healthOk
    \/ healthFailed
    \/ \E confirmed \in BOOLEAN : clearChat(confirmed)
    \/ \E sid \in BagToSet(deleteReqs) : deleteOk(sid)
    \/ \E sid \in BagToSet(deleteReqs) : deleteFailed(sid)
    \/ \E value \in MaxLengths : setMaxLength(value)
    \/ \E value \in Temperatures : setTemperature(value)
    \/ \E value \in TopPs : setTopP(value)
    \/ dismissError

SpecLive == Init /\ [][NextLive]_vars /\ WF_vars(chatSettles)

\* The sends and their resolutions with every failure shape of Errs
NextClassify ==
    \/ \E value \in Inputs : setInput(value)
    \/ sendMessage
    \/ \E i \in 1..Len(chatReqs) :
         \E response \in Responses, modelName \in ModelNames :
           chatSuccess(i, [response |-> response, modelName |-> modelName])
    \/ \E i \in 1..Len(chatReqs) : \E err \in Errs : chatFailure(i, err)
    \/ healthOk
    \/ healthFailed
    \/ \E confirmed \in BOOLEAN : clearChat(confirmed)
    \/ \E sid \in BagToSet(deleteReqs) : deleteOk(sid)
    \/ \E sid \in BagToSet(deleteReqs) : deleteFailed(sid)
    \/ dismissError

SpecClassify == Init /\ [][NextClassify]_vars

-----------------------------------------------------------------------------
(* Steps of the model, as the claims speak of them *)

Last(seq) == seq[Len(seq)]

Success(i) ==
    \E response \in Responses, modelName \in ModelNames :
      chatSuccess(i, [response |-> response, modelName |-> modelName])

Failure(i) == \E err \in Errs : chatFailure(i, err)

Blank(seq) == \A k \in 1..Len(seq) : seq[k] = " "

\* text is value without the white space around it
IsTrimOf(text, value) ==
    /\ text # <<>>
    /\ Head(text) # " "
    /\ Last(text) # " "
    /\ \E k \in 0..Len(value) :
         /\ k + Len(text) <= Len(value)
         /\ Blank(SubSeq(value, 1, k))
         /\ SubSeq(value, k + 1, k + Len(text)) = text
         /\ Blank(SubSeq(value, k + Len(text) + 1, Len(value)))

-----------------------------------------------------------------------------
(* C1: a send invoked while pending changes neither messages, lastError,   *)
(* sessionId nor the input buffer and dispatches no chat request; at most  *)
(* one chat request is outstanding at any time.                            *)

C1_SendWhilePendingIsNoOp ==
    /\ [](Len(chatReqs) <= 1)
    /\ [][isLoading /\ sendMessage =>
            UNCHANGED <<messages, error, sessionId, input, chatReqs>>]_vars

C1_Witness ==
    /\ last.op = "sendRejected"
    /\ isLoading
    /\ trim(input) # <<>>
    /\ Len(chatReqs) = 1
    /\ Len(messages) = 1

-----------------------------------------------------------------------------
(* C2: in every reachable state pending is true exactly when a chat        *)
(* request dispatched by send has not yet resolved.                        *)

C2_PendingIffOutstanding == isLoading <=> chatReqs # <<>>

\* pending with its request outstanding after a clear has reset the
\* conversation, a settings update and the health check's resolution
C2_Witness ==
    /\ isLoading
    /\ Len(chatReqs) = 1
    /\ chatReqs[1].cleared
    /\ nSettings > 0
    /\ health = "done"

-----------------------------------------------------------------------------
(* C3: when a chat request resolves while the sessionId differs from the   *)
(* sessionId captured at its dispatch, no assistant or error message is    *)
(* appended to messages.                                                   *)

C3_LateResponseDiscarded ==
    [][\A i \in 1..Len(chatReqs) :
         (chatReqs[i].payload.sessionId # sessionId /\ (Success(i) \/ Failure(i)))
           => messages' = messages]_vars

-----------------------------------------------------------------------------
(* C4: once a clear has been confirmed, the DELETE's resolution resets the *)
(* local state (messages empty, a newly generated sessionId, lastError     *)
(* cleared) whether the DELETE succeeds or fails.                          *)

C4_ClearResetsWhateverTheOutcome ==
    [][\A sid \in BagToSet(deleteReqs) :
         (deleteOk(sid) \/ deleteFailed(sid))
           => /\ messages' = <<>>
              /\ sessionId' = SessionToken(now)
              /\ error' = null]_vars

-----------------------------------------------------------------------------
(* C5: every sessionId installed by a completed clear differs from the     *)
(* prior sessionId and from every sessionId used earlier in the run, the   *)
(* initial one included.                                                   *)

C5_SessionIdsNeverCollide ==
    [][\A sid \in BagToSet(deleteReqs) : deleteOk(sid) => sessionId' \notin used]_vars

-----------------------------------------------------------------------------
(* C6: a send of an input that is non-empty after trimming, while not      *)
(* pending, appends exactly one user message holding the trimmed input,    *)
(* empties the input buffer, clears lastError and sets pending, in the     *)
(* step that puts the chat request in flight.                              *)

C6_SendAppendsUserMessage ==
    [][(~isLoading /\ ~Blank(input) /\ sendMessage) =>
         /\ Len(messages') = Len(messages) + 1
         /\ SubSeq(messages', 1, Len(messages)) = messages
         /\ Last(messages').role = "user"
         /\ IsTrimOf(Last(messages').content, input)
         /\ input' = <<>>
         /\ error' = null
         /\ isLoading'
         /\ Len(chatReqs') = Len(chatReqs) + 1
         /\ Last(chatReqs').payload.message = Last(messages').content]_vars

\* a send that found an error entry and left lastError empty
C6_Witness ==
    /\ last.op = "send"
    /\ isLoading
    /\ Len(messages) = 2
    /\ messages[1].role = "error"
    /\ messages[2] = [role |-> "user", content |-> <<"a", " ", "b">>]
    /\ input = <<>>
    /\ error = null
    /\ Len(chatReqs) = 1

-----------------------------------------------------------------------------
(* C7: a successful resolution with body {response, modelName} appends     *)
(* exactly one assistant message with that response and modelName after    *)
(* the messages present and ends pending; with no clear since the send of  *)
(* text t, the conversation is the one the send found followed by          *)
(* [user:t, assistant:response].                                           *)

C7_SuccessAppendsAssistantMessage ==
    [][\A i \in 1..Len(chatReqs) :
         \A response \in Responses, modelName \in ModelNames :
           chatSuccess(i, [response |-> response, modelName |-> modelName]) =>
             LET reply == [role |-> "assistant", content |-> response,
                           modelName |-> modelName]
             IN /\ messages' = Append(messages, reply)
                /\ ~isLoading'
                /\ ~chatReqs[i].cleared =>
                     messages' = chatReqs[i].before \o
                        <<[role |-> "user", content |-> chatReqs[i].payload.message],
                          reply>>]_vars

\* a success whose send found a message and was followed by no clear
C7_Witness ==
    /\ last.op = "chatSuccess"
    /\ ~last.req.cleared
    /\ last.req.before # <<>>
    /\ ~isLoading
    /\ Len(messages) = 3
    /\ messages[3] = [role |-> "assistant", content |-> <<"Hi there">>,
                      modelName |-> "legal-v1"]

-----------------------------------------------------------------------------
(* C8: a failed or timed out chat request appends exactly one error        *)
(* message with the classified text after the messages present, sets       *)
(* lastError to that text and ends pending; sessionId and settings are     *)
(* unchanged.                                                              *)

C8_FailureAppendsErrorMessage ==
    [][\A i \in 1..Len(chatReqs) : \A err \in Errs :
         (Len(chatReqs') < Len(chatReqs) /\ chatFailure(i, err)) =>
           /\ Len(messages') = Len(messages) + 1
           /\ SubSeq(messages', 1, Len(messages)) = messages
           /\ Last(messages').role = "error"
           /\ Last(messages').content = errorMessage(err)
           /\ error' = Last(messages').content
           /\ ~isLoading'
           /\ UNCHANGED <<sessionId, settings>>]_vars

C8_Witness ==
    /\ last.op = "chatFailure"
    /\ last.err.code = "ECONNABORTED"
    /\ ~isLoading
    /\ Len(messages) = 3
    /\ messages[3].role = "error"
    /\ error = messages[3].content
    /\ nSettings > 0

-----------------------------------------------------------------------------
(* C9: immediately after a chat request resolves successfully, lastError   *)
(* is empty, however the health check interleaves.                         *)

C9_SuccessClearsLastError ==
    [][\A i \in 1..Len(chatReqs) : Success(i) => error' = null]_vars

-----------------------------------------------------------------------------
(* C10: the text of a send failure is a function of the failure alone:     *)
(* timeout, rateLimited, serverMessage(text), unreachable and unknown give *)
(* the fixed timeout text, the fixed too-many-requests text, the server's  *)
(* text, the fixed cannot-connect text and "Please try again.", each after *)
(* the prefix "Failed to get response. "; every failure gets one of these. *)

Timeout == [code |-> "ECONNABORTED", response |-> <<>>]

RateLimited(code) ==
    [code |-> code, response |-> <<[status |-> TooManyRequests, message |-> <<>>]>>]

ServerMessage(code, text) ==
    [code |-> code, response |-> <<[status |-> 500, message |-> text]>>]

Unreachable(code) == [code |-> code, response |-> <<>>]

Unknown(code) ==
    [code |-> code, response |-> <<[status |-> 500, message |-> <<>>]>>]

FixedTexts ==
    {<<"Request timed out. The model might be taking too long to respond.">>,
     <<"Too many requests. Please wait a moment and try again.">>,
     <<"Cannot connect to server. Please check if the backend is running.">>,
     <<"Please try again.">>}

C10_ClassificationIsAFunctionOfTheFailure ==
    last.op = "chatFailure" =>
      LET err == last.err
          text == Last(messages).content
          code == err.code
      IN /\ Last(messages).role = "error"
         /\ Len(text) = 2
         /\ text[1] = "Failed to get response. "
         /\ <<text[2]>> \in FixedTexts \cup (ServerTexts \ {<<>>})
         /\ err = Timeout =>
              text[2] = "Request timed out. The model might be taking too long to respond."
         /\ (code # "ECONNABORTED" /\ err = RateLimited(code)) =>
              text[2] = "Too many requests. Please wait a moment and try again."
         /\ \A m \in ServerTexts \ {<<>>} :
              (code # "ECONNABORTED" /\ err = ServerMessage(code, m)) => <<text[2]>> = m
         /\ (code # "ECONNABORTED" /\ err = Unreachable(code)) =>
              text[2] = "Cannot connect to server. Please check if the backend is running."
         /\ (code # "ECONNABORTED" /\ err = Unknown(code)) =>
              text[2] = "Please try again."

\* a server message surfaced after a health check failure and an earlier reply
C10_Witness ==
    /\ last.op = "chatFailure"
    /\ last.err = ServerMessage("ERR_BAD_RESPONSE", <<"Model is overloaded">>)
    /\ Last(messages).content = <<"Failed to get response. ", "Model is overloaded">>
    /\ Len(messages) = 3
    /\ health = "done"

-----------------------------------------------------------------------------
(* C11: the health check is dispatched once, at creation, and never again; *)
(* its resolution sets lastError to "Unable to connect to server. Please   *)
(* check if the backend is running." on failure and clears it on success,  *)
(* and changes neither messages, pending, sessionId nor settings, whenever *)
(* it resolves relative to sends and clears.                               *)

C11_HealthCheckChangesOnlyLastError ==
    /\ [][health = "done" => health' = "done"]_vars
    /\ [][healthFailed =>
            /\ error' = <<"Unable to connect to server. Please check if the backend is running.">>
            /\ UNCHANGED <<messages, isLoading, sessionId, settings>>]_vars
    /\ [][healthOk =>
            /\ error' = <<>>
            /\ UNCHANGED <<messages, isLoading, sessionId, settings>>]_vars

\* the health check failed while a send was outstanding and after a clear
C11_Witness ==
    /\ last.op = "healthFailed"
    /\ health = "done"
    /\ error = <<"Unable to connect to server. Please check if the backend is running.">>
    /\ isLoading
    /\ Len(chatReqs) = 1
    /\ chatReqs[1].cleared
    /\ messages = <<>>

-----------------------------------------------------------------------------
(* C12: when every dispatched chat request settles in the end (with a      *)
(* response, a failure or the 60 second timeout), pending always leads to  *)
(* not pending, whatever clears and settings updates are made while the    *)
(* request is in flight.                                                   *)

C12_PendingLeadsToIdle == isLoading ~> ~isLoading

\* back to idle from a send that a clear and a settings update overtook
C12_Witness ==
    /\ last.op \in {"chatSuccess", "chatFailure"}
    /\ ~isLoading
    /\ chatReqs = <<>>
    /\ last.req.cleared
    /\ last.req.payload.options # settings

-----------------------------------------------------------------------------
(* C13: every chat request is dispatched with the trimmed input as its     *)
(* message, the sessionId current at dispatch and the settings as they are *)
(* at dispatch; while it is in flight no step (a settings update or a      *)
(* clear in particular) alters its payload.                                *)

C13_PayloadIsSnapshotAtDispatch ==
    /\ [][(~isLoading /\ ~Blank(input) /\ sendMessage) =>
            /\ Len(chatReqs') = Len(chatReqs) + 1
            /\ IsTrimOf(Last(chatReqs').payload.message, input)
            /\ Last(chatReqs').payload.sessionId = sessionId
            /\ Last(chatReqs').payload.options = settings]_vars
    /\ [][Len(chatReqs') >= Len(chatReqs) =>
            \A k \in 1..Len(chatReqs) : chatReqs'[k].payload = chatReqs[k].payload]_vars

\* a request in flight whose session a clear has replaced and whose settings
\* an update has overtaken
C13_Witness ==
    /\ Len(chatReqs) = 1
    /\ chatReqs[1].payload.message = <<"a", " ", "b">>
    /\ chatReqs[1].payload.sessionId = <<"session_", 0>>
    /\ sessionId = <<"session_", 1>>
    /\ chatReqs[1].payload.options = [maxLength |-> 512, temperature |-> 7, topP |-> 90]
    /\ settings.temperature = 12

-----------------------------------------------------------------------------
(* C14: every step leaves messages unchanged, or extends it by exactly one *)
(* message at the end (the earlier messages keep role, content and         *)
(* position), or, as the effect of a clear, replaces it by the empty       *)
(* sequence.                                                               *)

C14_AppendOnlyExceptOnClear ==
    [][\/ messages' = messages
       \/ /\ Len(messages') = Len(messages) + 1
          /\ \A k \in 1..Len(messages) : messages'[k] = messages[k]
       \/ /\ messages' = <<>>
          /\ \E sid \in BagToSet(deleteReqs) : deleteOk(sid)]_vars

\* a conversation grown after a clear: the late reply, a send and its failure
C14_Witness ==
    /\ Len(messages) = 3
    /\ messages[1].role = "assistant"
    /\ messages[2].role = "user"
    /\ messages[3].role = "error"
    /\ last.op = "chatFailure"
    /\ sessionId = <<"session_", 1>>

-----------------------------------------------------------------------------
(* C15: the sessionId changes only in the step that completes a clear, and *)
(* in every step where it changes messages is empty afterwards and         *)
(* lastError is cleared; sends, their resolutions, the health check and    *)
(* settings updates never change the sessionId.                            *)

C15_SessionIdChangesOnlyWithClear ==
    [][sessionId' # sessionId =>
         /\ \E sid \in BagToSet(deleteReqs) : deleteOk(sid)
         /\ messages' = <<>>
         /\ error' = <<>>]_vars

\* a completed clear that installed a new sessionId, the health check resolved
C15_Witness ==
    /\ last.op = "deleteOk"
    /\ sessionId = <<"session_", 1>>
    /\ used = {<<"session_", 0>>, <<"session_", 1>>}
    /\ messages = <<>>
    /\ error = <<>>
    /\ ~isLoading
    /\ health = "done"

-----------------------------------------------------------------------------
(* C16: settings start at maxLength 512, temperature 0.7, topP 0.9; an     *)
(* update of one field sets that field to the given value and leaves the   *)
(* other two as they were, and changes neither messages, sessionId,        *)
(* pending nor lastError; no other step changes settings.  So after any    *)
(* sequence of updates each field holds the value of its latest update, or *)
(* its default.                                                            *)

-----------------------------------------------------------------------------
(* C17: a send whose input is empty or only white space is rejected in     *)
(* every state: no message is appended, no chat request is dispatched,     *)
(* pending and lastError are unchanged and the input buffer is kept.       *)

C17_BlankSendRejected ==
    [][(Blank(input) /\ sendMessage) =>
         UNCHANGED <<messages, chatReqs, isLoading, error, input>>]_vars

\* a white space input rejected while idle, the banner and the conversation kept
C17_Witness ==
    /\ last.op = "sendRejected"
    /\ ~isLoading
    /\ input = <<" ", " ">>
    /\ error = HealthCheckFailedText
    /\ Len(messages) = 2
    /\ chatReqs = <<>>

-----------------------------------------------------------------------------
(* C18: failed sends are not retried.  A chat request is put in flight     *)
(* only by an accepted send, one per send; the step in which a request     *)
(* settles, with a reply or with a failure, takes it out of flight and     *)
(* dispatches none, so that none is in flight after a failure until the    *)
(* next send.  Step by step, the requests dispatched are as many as the    *)
(* sends accepted.                                                         *)

C18_NoRetry ==
    /\ [][Len(chatReqs') > Len(chatReqs) =>
            /\ ~isLoading /\ ~Blank(input) /\ sendMessage
            /\ Len(chatReqs') = Len(chatReqs) + 1]_vars
    /\ [][(~isLoading /\ ~Blank(input) /\ sendMessage) =>
            Len(chatReqs') = Len(chatReqs) + 1]_vars
    /\ [][chatSettles =>
            /\ chatReqs' = <<>>
            /\ Len(messages') = Len(messages) + 1
            /\ Last(messages').role \in {"assistant", "error"}]_vars
    /\ [][(Len(messages') > Len(messages) /\ Last(messages').role # "user") =>
            /\ Len(chatReqs) = 1
            /\ chatReqs' = <<>>]_vars

\* a failed send settled: nothing in flight, and an input ready to be sent
C18_Witness ==
    /\ last.op = "chatFailure"
    /\ chatReqs = <<>>
    /\ ~isLoading
    /\ Len(messages) = 2
    /\ messages[1].role = "user"
    /\ messages[2].role = "error"
    /\ trim(input) # <<>>

-----------------------------------------------------------------------------
(* C19: a clear performed while a send is outstanding does not abort it:   *)
(* neither the invocation of the clear nor its local reset changes pending *)
(* (still true) or the chat request in flight, and a send invoked after    *)
(* the reset and before the request settles is still rejected.             *)

C19_ClearDoesNotAbortSend ==
    /\ [][\A confirmed \in BOOLEAN :
            (isLoading /\ clearChat(confirmed)) =>
               isLoading' /\ chatReqs' = chatReqs]_vars
    /\ [][\A sid \in BagToSet(deleteReqs) :
            (isLoading /\ deleteOk(sid)) =>
               /\ isLoading'
               /\ Len(chatReqs') = Len(chatReqs)
               /\ \A k \in 1..Len(chatReqs) :
                    chatReqs'[k].payload = chatReqs[k].payload]_vars
    /\ [][((\E k \in 1..Len(chatReqs) : chatReqs[k].cleared) /\ sendMessage) =>
            UNCHANGED <<messages, chatReqs, isLoading, input>>]_vars

\* a send rejected after the reset of a clear, the old session's request
\* still in flight
C19_Witness ==
    /\ last.op = "sendRejected"
    /\ isLoading
    /\ Len(chatReqs) = 1
    /\ chatReqs[1].cleared
    /\ chatReqs[1].payload.sessionId # sessionId
    /\ messages = <<>>
    /\ trim(input) # <<>>

-----------------------------------------------------------------------------
(* C20: the classification of a failure that matches several shapes        *)
(* follows a fixed precedence: the timeout code wins over everything;      *)
(* otherwise status 429 wins over a message in the response body;          *)
(* otherwise a server message wins; otherwise the absence of a response    *)
(* gives the cannot-connect text; only a response without status 429 and   *)
(* without a message gives "Please try again.".                            *)

HasResponse(err) == err.response # <<>>

HasStatus429(err) == HasResponse(err) /\ err.response[1].status = 429

HasMessage(err) == HasResponse(err) /\ err.response[1].message # <<>>

C20_ClassificationPrecedence ==
    last.op = "chatFailure" =>
      LET err == last.err
          text == Last(messages).content
          timedOut == err.code = "ECONNABORTED"
      IN /\ Len(text) = 2
         /\ text[1] = "Failed to get response. "
         /\ timedOut =>
              text[2] = "Request timed out. The model might be taking too long to respond."
         /\ (~timedOut /\ HasStatus429(err)) =>
              text[2] = "Too many requests. Please wait a moment and try again."
         /\ (~timedOut /\ ~HasStatus429(err) /\ HasMessage(err)) =>
              <<text[2]>> = err.response[1].message
         /\ (~timedOut /\ ~HasStatus429(err) /\ ~HasMessage(err) /\ ~HasResponse(err)) =>
              text[2] = "Cannot connect to server. Please check if the backend is running."
         /\ (~timedOut /\ HasResponse(err) /\ ~HasStatus429(err) /\ ~HasMessage(err)) <=>
              text[2] = "Please try again."

\* a 429 response that carries a message: the too-many-requests text
C20_Witness ==
    /\ last.op = "chatFailure"
    /\ last.err = [code |-> "ERR_BAD_RESPONSE",
                   response |-> <<[status |-> 429, message |-> <<"Model is overloaded">>]>>]
    /\ Last(messages) =
         [role |-> "error",
          content |-> <<"Failed to get response. ",
                        "Too many requests. Please wait a moment and try again.">>]
    /\ error = Last(messages).content

-----------------------------------------------------------------------------
(* C21: the local reset of a clear is applied when its DELETE request      *)
(* succeeds, not when the clear is invoked: the invocation changes neither *)
(* messages, sessionId nor lastError; while the DELETE is in flight a send *)
(* is accepted and carries the old sessionId; the step of the DELETE's     *)
(* success empties messages, those appended in the meantime included.      *)

C21_ResetAppliedAtDeleteSuccess ==
    /\ [][\A confirmed \in BOOLEAN :
            clearChat(confirmed) => UNCHANGED <<messages, sessionId, error>>]_vars
    /\ [][(BagIn(sessionId, deleteReqs) /\ ~isLoading /\ ~Blank(input)
            /\ sendMessage) =>
            /\ Len(messages') = Len(messages) + 1
            /\ Len(chatReqs') = Len(chatReqs) + 1
            /\ Last(chatReqs').payload.sessionId = sessionId
            /\ sessionId' = sessionId]_vars
    /\ [][\A sid \in BagToSet(deleteReqs) :
            deleteOk(sid) => messages' = <<>>]_vars

\* a send accepted under the old sessionId after the clear was confirmed
\* and before its DELETE has resolved, the earlier messages still there
C21_Witness ==
    /\ last.op = "send"
    /\ BagIn(sessionId, deleteReqs)
    /\ Len(messages) = 2
    /\ messages[1].role = "assistant"
    /\ messages[2].role = "user"
    /\ Len(chatReqs) = 1
    /\ chatReqs[1].payload.sessionId = sessionId

-----------------------------------------------------------------------------
(* C22: in every reachable state lastError is empty, or the fixed health   *)
(* check message, or the content of the last error-role message now in     *)
(* messages: it never holds a send failure's text that has no matching     *)
(* error message in the conversation.                                      *)

IsLastErrorMessage(k) ==
    /\ messages[k].role = "error"
    /\ \A j \in (k + 1)..Len(messages) : messages[j].role # "error"

C22_LastErrorMatchesConversation ==
    \/ error = <<>>
    \/ error = <<"Unable to connect to server. Please check if the backend is running.">>
    \/ \E k \in 1..Len(messages) :
         IsLastErrorMessage(k) /\ messages[k].content = error

\* lastError holds the text of the second of two different send failures
C22_Witness ==
    /\ Len(messages) = 3
    /\ messages[1].role = "error"
    /\ messages[3].role = "error"
    /\ messages[1].content # messages[3].content
    /\ error = messages[3].content
    /\ health = "done"

-----------------------------------------------------------------------------
(* C23: no chat request is dispatched carrying a sessionId for which a     *)
(* DELETE request has already been issued.  Stated for the DELETE requests *)
(* still in flight, which the claim covers: no accepted send carries the   *)
(* sessionId of a DELETE request in flight.                                *)

C23_NoSendWithDeletedSessionId ==
    [][(~isLoading /\ ~Blank(input) /\ sendMessage) =>
         ~BagIn(Last(chatReqs').payload.sessionId, deleteReqs)]_vars

=============================================================================
